---------------------------- MODULE Spec2Model ----------------------------
(***************************************************************************)
(* Model of codesearchpatch.Grep.Reader (the streaming line matcher) and   *)
(* of LineContext (context-window extraction with shared-prefix removal),  *)
(* together with the file loop of searchPartial that drives Reader.        *)
(*                                                                         *)
(* Bytes are one-character strings.  Go slices are 0-based and half-open;  *)
(* Slice(b, lo, hi) is b[lo:hi].                                           *)
(***************************************************************************)
EXTENDS Integers, Sequences, FiniteSets, TLC

(***************************************************************************)
(* Bounds of the model.                                                    *)
(***************************************************************************)
BufCap     == 5   \* capacity of g.buf, scaled down from 1<<20
MaxLines   == 3   \* lines per source
MaxLimit   == 2   \* largest g.Limit tried
MaxContext == 1   \* largest g.PreContext / g.PostContext tried
MaxLC      == 5   \* longest buffer handed to LineContext on its own
MaxNum     == 2   \* largest numBefore / numAfter handed to LineContext on its own
LongLines  == 4   \* lines of the longer sources scanned with context configurations

(***************************************************************************)
(* Program constants.                                                      *)
(***************************************************************************)
OnMatchBefore == 1   \* LineContext(1, 1, ...) in the OnMatch callback of searchPartial
OnMatchAfter  == 1

NL  == "\n"
SP  == " "
TAB == "\t"
CR  == "\r"

Min(a, b) == IF a < b THEN a ELSE b

Slice(b, lo, hi) == SubSeq(b, lo + 1, hi)

InRange(b, lo, hi) == 0 <= lo /\ lo <= hi /\ hi <= Len(b)

(***************************************************************************)
(* bytes.IndexByte(b, '\n') and bytes.LastIndex(b, nl): 0-based, -1 when   *)
(* b holds no newline.                                                     *)
(***************************************************************************)
IndexNL(b) ==
  LET S == {i \in 1..Len(b) : b[i] = NL}
  IN IF S = {} THEN -1 ELSE (CHOOSE i \in S : \A j \in S : i <= j) - 1

LastIndexNL(b) ==
  LET S == {i \in 1..Len(b) : b[i] = NL}
  IN IF S = {} THEN -1 ELSE (CHOOSE i \in S : \A j \in S : j <= i) - 1

RECURSIVE countNL(_)
countNL(b) ==
  LET i == IndexNL(b)
  IN IF i < 0 THEN 0 ELSE 1 + countNL(Slice(b, i + 1, Len(b)))

(***************************************************************************)
(* lineSuffixLen: the loop of n steps moves `end` back over n newlines,    *)
(* the tail returns the length of buf after the newline before `end`.      *)
(***************************************************************************)
RECURSIVE lineSuffixEnd(_, _, _)
lineSuffixEnd(buf, end, n) ==
  IF n <= 0 THEN end
  ELSE LET j == LastIndexNL(Slice(buf, 0, end))
       IN IF j < 0 THEN end ELSE lineSuffixEnd(buf, j, n - 1)

\* variant: the newline before the suffix is counted into it
lineSuffixLen_WithNewline(buf, n) ==
  LET end == lineSuffixEnd(buf, Len(buf), n)
      j   == LastIndexNL(Slice(buf, 0, end))
  IN IF j >= 0 THEN Len(buf) - j ELSE Len(buf)

lineSuffixLen(buf, n) ==
  LET end == lineSuffixEnd(buf, Len(buf), n)
      j   == LastIndexNL(Slice(buf, 0, end))
  IN IF j >= 0 THEN Len(buf) - (j + 1) ELSE Len(buf)

RECURSIVE linePrefixFrom(_, _, _)
linePrefixFrom(buf, start, lines) ==
  IF lines <= 0 THEN start
  ELSE LET j == IndexNL(Slice(buf, start, Len(buf)))
       IN IF j < 0 THEN Len(buf) ELSE linePrefixFrom(buf, start + j + 1, lines - 1)

linePrefixLen(buf, lines) == linePrefixFrom(buf, 0, lines)

(***************************************************************************)
(* chomp, updatePrefix, cutPrefix.  NoPrefix stands for the nil slice the  *)
(* prefix starts as; an empty non-nil prefix is <<>>.                      *)
(***************************************************************************)
IsBlank(c) == c = SP \/ c = TAB

RECURSIVE chomp(_)
chomp(s) ==
  IF Len(s) > 0 /\ (IsBlank(s[Len(s)]) \/ s[Len(s)] = CR \/ s[Len(s)] = NL)
  THEN chomp(Slice(s, 0, Len(s) - 1))
  ELSE s

RECURSIVE blankRun(_, _)
blankRun(line, i) ==
  IF i < Len(line) /\ IsBlank(line[i + 1]) THEN blankRun(line, i + 1) ELSE i

RECURSIVE commonRun(_, _, _)
commonRun(prefix, line, i) ==
  IF i < Len(line) /\ i < Len(prefix) /\ line[i + 1] = prefix[i + 1]
  THEN commonRun(prefix, line, i + 1)
  ELSE i

NoPrefix == <<"nil">>

\* variant: a line that ends inside the prefix narrows the prefix to its length
updatePrefix_Narrow(prefix, line) ==
  IF prefix = NoPrefix THEN Slice(line, 0, blankRun(line, 0))
  ELSE Slice(prefix, 0, commonRun(prefix, line, 0))

updatePrefix(prefix, line) ==
  IF prefix = NoPrefix THEN Slice(line, 0, blankRun(line, 0))
  ELSE LET i == commonRun(prefix, line, 0)
       IN IF i >= Len(line) THEN prefix ELSE Slice(prefix, 0, i)

PrefixBytes(prefix) == IF prefix = NoPrefix THEN <<>> ELSE prefix

cutPrefix(line, prefix) ==
  IF Len(PrefixBytes(prefix)) > Len(line) THEN <<>>
  ELSE Slice(line, Len(PrefixBytes(prefix)), Len(line))

(***************************************************************************)
(* bytes.SplitAfter(s, nl) and bytes.Split(s, nl): n newlines give n + 1   *)
(* pieces, the last one possibly empty.                                    *)
(***************************************************************************)
RECURSIVE SplitAfterNL(_)
SplitAfterNL(s) ==
  LET i == IndexNL(s)
  IN IF i < 0 THEN <<s>>
     ELSE <<Slice(s, 0, i + 1)>> \o SplitAfterNL(Slice(s, i + 1, Len(s)))

RECURSIVE SplitNL(_)
SplitNL(s) ==
  LET i == IndexNL(s)
  IN IF i < 0 THEN <<s>>
     ELSE <<Slice(s, 0, i)>> \o SplitNL(Slice(s, i + 1, Len(s)))

DropEmptyLast(ps) ==
  IF Len(ps[Len(ps)]) = 0 THEN SubSeq(ps, 1, Len(ps) - 1) ELSE ps

RECURSIVE foldPrefix(_, _, _)
foldPrefix(prefix, ls, i) ==
  IF i > Len(ls) THEN prefix ELSE foldPrefix(updatePrefix(prefix, ls[i]), ls, i + 1)

(***************************************************************************)
(* LineContext.  The result carries, besides the three return values, the  *)
(* locals beforeChunk, afterChunk and prefix, the chomped lines before the *)
(* prefix is cut, and ok = FALSE when a slice expression is out of range.  *)
(***************************************************************************)
NoWindow ==
  [ok |-> TRUE, called |-> FALSE, before |-> <<>>, line |-> <<>>, after |-> <<>>,
   beforeChunk |-> <<>>, afterChunk |-> <<>>, prefix |-> <<>>,
   rawBefore |-> <<>>, rawLine |-> <<>>, rawAfter |-> <<>>]

LineContext(numBefore, numAfter, buf, lineStart, lineEnd) ==
  IF ~InRange(buf, lineStart, lineEnd) THEN [NoWindow EXCEPT !.ok = FALSE, !.called = TRUE]
  ELSE
  LET bs == lineStart - lineSuffixLen(Slice(buf, 0, lineStart), numBefore)
      ae == lineEnd + linePrefixLen(Slice(buf, lineEnd, Len(buf)), numAfter)
  IN IF ~InRange(buf, bs, lineStart) \/ ~InRange(buf, lineEnd, ae)
     THEN [NoWindow EXCEPT !.ok = FALSE, !.called = TRUE]
     ELSE
     LET beforeChunk == Slice(buf, bs, lineStart)
         afterChunk  == Slice(buf, lineEnd, ae)
         line0   == chomp(Slice(buf, lineStart, lineEnd))
         bparts  == DropEmptyLast(SplitAfterNL(beforeChunk))
         before0 == [i \in 1..Len(bparts) |-> chomp(bparts[i])]
         aparts  == DropEmptyLast(SplitNL(afterChunk))
         after0  == [i \in 1..Len(aparts) |-> chomp(aparts[i])]
         p1      == updatePrefix(NoPrefix, line0)
         p2      == foldPrefix(p1, before0, 1)
         prefix  == foldPrefix(p2, after0, 1)
     IN [ok |-> TRUE, called |-> TRUE,
         before |-> [i \in 1..Len(before0) |-> cutPrefix(before0[i], prefix)],
         line   |-> cutPrefix(line0, prefix),
         after  |-> [i \in 1..Len(after0) |-> cutPrefix(after0[i], prefix)],
         beforeChunk |-> beforeChunk, afterChunk |-> afterChunk,
         prefix |-> PrefixBytes(prefix),
         rawBefore |-> before0, rawLine |-> line0, rawAfter |-> after0]

(***************************************************************************)
(* The matcher (g.Regexp.Match).  It runs over b line by line and returns  *)
(* the 0-based index of the newline that ends the first accepted line, or  *)
(* Len(b) when endText holds and the unterminated tail of b is accepted,   *)
(* or -1.  The pattern of the model accepts a line that holds MatchByte:   *)
(* it is not anchored to the text, so beginText does not change what it    *)
(* accepts, and it accepts no empty line.                                  *)
(***************************************************************************)
MatchByte == "x"

Accepts(line) == \E i \in 1..Len(line) : line[i] = MatchByte

LineBefore(b, i) ==
  \* content of the line of b that the newline at 0-based index i ends
  Slice(b, LastIndexNL(Slice(b, 0, i)) + 1, i)

Match(b, beginText, endText) ==
  LET hits == {i \in 0..(Len(b) - 1) : b[i + 1] = NL /\ Accepts(LineBefore(b, i))}
  IN IF hits # {} THEN CHOOSE i \in hits : \A j \in hits : i <= j
     ELSE IF endText /\ Accepts(Slice(b, LastIndexNL(b) + 1, Len(b))) THEN Len(b)
     ELSE -1

(***************************************************************************)
(* Sources: up to MaxLines lines drawn from Vocab, the last one with or    *)
(* without its newline.  A source with fail = TRUE ends in a read error    *)
(* instead of end-of-stream.                                               *)
(***************************************************************************)
Vocab == {<<>>, <<"a">>, <<"x">>, <<"x", "a">>}

RECURSIVE Texts(_)
Texts(k) ==
  IF k = 0 THEN {<<>>}
  ELSE {t \o v \o <<NL>> : t \in Texts(k - 1), v \in Vocab}

TextsUpTo(k) ==
  UNION {Texts(j) : j \in 0..k}
    \cup UNION {{t \o v : t \in Texts(j - 1), v \in Vocab \ {<<>>}} : j \in 1..k}

\* longer sources, of LongLines lines, for the scans that keep context: a buffer
\* slid with its last lines meets further newlines only in a source this long
LongVocab == {<<>>, <<"a">>, <<"x">>, <<"a", "x">>}

RECURSIVE LongTextsOf(_)
LongTextsOf(k) ==
  IF k = 0 THEN {<<>>}
  ELSE {t \o v \o <<NL>> : t \in LongTextsOf(k - 1), v \in LongVocab}

LongTexts ==
  LongTextsOf(LongLines)
    \cup {t \o v : t \in LongTextsOf(LongLines - 1), v \in LongVocab \ {<<>>}}

NumLines(data) == countNL(data) + (IF Len(data) > 0 /\ data[Len(data)] # NL THEN 1 ELSE 0)

(***************************************************************************)
(* Configurations of a Grep value (the exported fields Reader reads).      *)
(***************************************************************************)
Config(l, c, n, h, om, lim, pre, post) ==
  [L |-> l, C |-> c, N |-> n, HTML |-> h, OnMatch |-> om,
   Limit |-> lim, PreContext |-> pre, PostContext |-> post]

Configs ==
  \* -n output, alone or as context blocks
  {Config(FALSE, FALSE, TRUE, FALSE, FALSE, lim, pre, post) :
       lim \in 0..MaxLimit, pre \in 0..MaxContext, post \in 0..MaxContext}
  \* counts only
  \cup {Config(FALSE, TRUE, FALSE, FALSE, FALSE, lim, 0, 0) : lim \in 0..MaxLimit}
  \* names only
  \cup {Config(TRUE, FALSE, FALSE, FALSE, FALSE, lim, 0, 0) : lim \in 0..1}
  \* the Grep value of searchPartial: N and an OnMatch callback
  \cup {Config(FALSE, FALSE, TRUE, FALSE, TRUE, lim, 0, 0) : lim \in {0, MaxLimit}}
  \* plain and HTML lines
  \cup {Config(FALSE, FALSE, FALSE, h, FALSE, 0, 0, 0) : h \in BOOLEAN}

SeqConfigs ==
  {Config(FALSE, FALSE, TRUE, FALSE, TRUE, lim, 0, 0) : lim \in 0..MaxLimit}
  \cup {Config(FALSE, TRUE, FALSE, FALSE, FALSE, lim, 0, 0) : lim \in {0, MaxLimit}}

\* line output with and without line numbers, with every context setting
LongConfigs ==
  {Config(FALSE, FALSE, num, FALSE, FALSE, 0, pre, post) :
       num \in BOOLEAN, pre \in 0..MaxContext, post \in 0..MaxContext}

VARIABLES
  g,          \* the Grep value: configuration, Match, Matches, Limited
  files,      \* the sources handed to Reader, in order
  rmode,      \* how r.Read delivers bytes: "byte" (one per call) or "whole"
  cur,        \* index of the source being scanned (the next one when idle)
  pc,         \* "idle", "read" (in io.ReadFull), "match" (inner loop), "panic"
  pos,        \* bytes of the current source consumed by finished ReadFull calls
  n,          \* bytes obtained so far by the running ReadFull
  rerr,       \* error of the last r.Read call: "nil", "EOF", "ERR"
  err,        \* error of the last ReadFull: "nil", "EOF", "UnexpectedEOF", "ERR"
  buf, chunkStart, end, lineno, count, beginText, endText,
  base,       \* history: stream offset of buf[0]
  out,        \* history: the matches that reached the output switch
  Stdout, Stderr,
  nreads,     \* history: r.Read calls made on the current source
  fed,        \* history: stream offset up to which bytes were handed to the matcher
  steps,      \* history: steps of Reader and the file loop taken so far
  lc          \* a call of LineContext on its own: arguments, position, result

vars == <<g, files, rmode, cur, pc, pos, n, rerr, err, buf, chunkStart, end,
          lineno, count, beginText, endText, base, out, Stdout, Stderr, nreads,
          fed, steps, lc>>

(***************************************************************************)
(* The operations are written as functions from a state record to a state  *)
(* record, so that a whole scan can also be evaluated in one piece (Run).  *)
(* State is the record of the variables of a scan, Is(t) and Becomes(t)    *)
(* say that they are, or become, those of t.                               *)
(***************************************************************************)
State ==
  [g |-> g, files |-> files, rmode |-> rmode, cur |-> cur, pc |-> pc, pos |-> pos,
   n |-> n, rerr |-> rerr, err |-> err, buf |-> buf, chunkStart |-> chunkStart,
   end |-> end, lineno |-> lineno, count |-> count, beginText |-> beginText,
   endText |-> endText, base |-> base, out |-> out, Stdout |-> Stdout,
   Stderr |-> Stderr, nreads |-> nreads, fed |-> fed]

Is(t) ==
  /\ g = t.g /\ files = t.files /\ rmode = t.rmode /\ cur = t.cur /\ pc = t.pc
  /\ pos = t.pos /\ n = t.n /\ rerr = t.rerr /\ err = t.err /\ buf = t.buf
  /\ chunkStart = t.chunkStart /\ end = t.end /\ lineno = t.lineno
  /\ count = t.count /\ beginText = t.beginText /\ endText = t.endText
  /\ base = t.base /\ out = t.out /\ Stdout = t.Stdout /\ Stderr = t.Stderr
  /\ nreads = t.nreads /\ fed = t.fed

Becomes(t) ==
  /\ g' = t.g /\ files' = t.files /\ rmode' = t.rmode /\ cur' = t.cur /\ pc' = t.pc
  /\ pos' = t.pos /\ n' = t.n /\ rerr' = t.rerr /\ err' = t.err /\ buf' = t.buf
  /\ chunkStart' = t.chunkStart /\ end' = t.end /\ lineno' = t.lineno
  /\ count' = t.count /\ beginText' = t.beginText /\ endText' = t.endText
  /\ base' = t.base /\ out' = t.out /\ Stdout' = t.Stdout /\ Stderr' = t.Stderr
  /\ nreads' = t.nreads /\ fed' = t.fed
  /\ steps' = steps + 1
  /\ lc' = lc

NewGrep(cfg) ==
  [L |-> cfg.L, C |-> cfg.C, N |-> cfg.N, HTML |-> cfg.HTML, OnMatch |-> cfg.OnMatch,
   Limit |-> cfg.Limit, PreContext |-> cfg.PreContext, PostContext |-> cfg.PostContext,
   Match |-> FALSE, Matches |-> 0, Limited |-> FALSE]

\* the state in which `grep` is about to scan the sources fs
InitState(grep, fs, rm) ==
  [g |-> grep, files |-> fs, rmode |-> rm, cur |-> 1, pc |-> "idle", pos |-> 0,
   n |-> 0, rerr |-> "nil", err |-> "nil", buf |-> <<>>, chunkStart |-> 0,
   end |-> 0, lineno |-> 1, count |-> 0, beginText |-> TRUE,
   endText |-> FALSE, base |-> 0, out |-> <<>>, Stdout |-> <<>>,
   Stderr |-> <<>>, nreads |-> 0, fed |-> 0]

FileSets ==
  {<<[data |-> d, fail |-> f]>> : d \in TextsUpTo(MaxLines), f \in BOOLEAN}

FilePairs ==
  {<<[data |-> d1, fail |-> f], [data |-> d2, fail |-> FALSE]>> :
      d1 \in TextsUpTo(MaxLines - 1), d2 \in TextsUpTo(MaxLines - 1), f \in BOOLEAN}

LongFileSets == {<<[data |-> d, fail |-> FALSE]>> : d \in LongTexts}

NoCall ==
  [pc |-> "none", numBefore |-> 0, numAfter |-> 0, buf |-> <<>>,
   lineStart |-> 0, lineEnd |-> 0, res |-> NoWindow]

Init ==
  /\ \/ \E fs \in FileSets, rm \in {"byte", "whole"}, cfg \in Configs :
           Is(InitState(NewGrep(cfg), fs, rm))
     \/ \E fs \in FilePairs, cfg \in SeqConfigs :
           Is(InitState(NewGrep(cfg), fs, "whole"))
     \/ \E fs \in LongFileSets, rm \in {"byte", "whole"}, cfg \in LongConfigs :
           Is(InitState(NewGrep(cfg), fs, rm))
  /\ steps = 0
  /\ lc = NoCall

needLineno(s) == s.g.N \/ s.g.HTML

(***************************************************************************)
(* The file loop of searchPartial: stop at the first source after the      *)
(* limit was hit, else call g.Reader, whose first lines set the locals.    *)
(***************************************************************************)
StartReaderEnabled(s) ==
  /\ s.pc = "idle"
  /\ s.cur <= Len(s.files)
  /\ ~s.g.Limited

\* variant: the line counter is not set back to 1
StartReaderStep_KeepLineno(s) ==
  [s EXCEPT !.pc = "read", !.buf = <<>>, !.count = 0,
            !.beginText = TRUE, !.endText = FALSE, !.chunkStart = 0,
            !.end = 0, !.base = 0, !.pos = 0, !.n = 0, !.rerr = "nil",
            !.err = "nil", !.nreads = 0, !.fed = 0]

StartReaderStep(s) ==
  [s EXCEPT !.pc = "read", !.buf = <<>>, !.lineno = 1, !.count = 0,
            !.beginText = TRUE, !.endText = FALSE, !.chunkStart = 0,
            !.end = 0, !.base = 0, !.pos = 0, !.n = 0, !.rerr = "nil",
            !.err = "nil", !.nreads = 0, !.fed = 0]

(***************************************************************************)
(* io.ReadFull(r, buf[len(buf):cap(buf)]): r.Read is called while fewer    *)
(* than min bytes were obtained and no call failed.                        *)
(***************************************************************************)
ReadMin(s) == BufCap - Len(s.buf)

\* variant: one r.Read call per chunk instead of io.ReadFull
ReadFullRunning_SingleRead(s) == s.n = 0 /\ s.rerr = "nil" /\ ReadMin(s) > 0

ReadFullRunning(s) == s.n < ReadMin(s) /\ s.rerr = "nil"

ReadCallEnabled(s) == s.pc = "read" /\ ReadFullRunning(s)

\* one r.Read call of the source
ReadCallStep(s) ==
  LET avail == Len(s.files[s.cur].data) - s.pos - s.n
      k     == IF s.rmode = "byte" THEN 1 ELSE Min(avail, ReadMin(s) - s.n)
  IN IF avail = 0
     THEN [s EXCEPT !.rerr = (IF s.files[s.cur].fail THEN "ERR" ELSE "EOF"),
                    !.nreads = @ + 1]
     ELSE [s EXCEPT !.n = @ + k, !.nreads = @ + 1]

ReadFullErr(s) ==
  IF s.n >= ReadMin(s) THEN "nil"
  ELSE IF s.n > 0 /\ s.rerr = "EOF" THEN "UnexpectedEOF"
  ELSE s.rerr

\* lines 91-102: the end of the region handed to the matcher
SafeEnd(b, e, postContext) ==
  IF e = "nil"
  THEN LET d == lineSuffixLen(b, postContext + 1)
       IN IF d < Len(b) THEN Len(b) - d ELSE Len(b)
  ELSE Len(b)

ReadDoneEnabled(s) == s.pc = "read" /\ ~ReadFullRunning(s)

ReadDoneStep(s) ==
  LET e == ReadFullErr(s)
      b == s.buf \o SubSeq(s.files[s.cur].data, s.pos + 1, s.pos + s.n)
  IN [s EXCEPT !.err = e, !.buf = b, !.end = SafeEnd(b, e, s.g.PostContext),
               !.endText = (IF e = "nil" THEN @ ELSE TRUE),
               !.pos = @ + s.n, !.n = 0, !.rerr = "nil", !.pc = "match"]

(***************************************************************************)
(* The inner loop, lines 103-162.  M1 is m1 of the running iteration, or   *)
(* -1 when the loop condition chunkStart < end is false.                   *)
(***************************************************************************)
LoopRuns(s) == s.chunkStart < s.end

M1(s) ==
  IF LoopRuns(s)
  THEN Match(Slice(s.buf, s.chunkStart, s.end), s.beginText, s.endText) + s.chunkStart
  ELSE -1

Found(s) == LoopRuns(s) /\ M1(s) >= s.chunkStart

\* line 104 hands buf[chunkStart:end] to the matcher when the loop runs
Fed(s) == IF LoopRuns(s) /\ s.base + s.end > s.fed THEN s.base + s.end ELSE s.fed

AtLimit(s) == s.g.Limit > 0 /\ s.g.Matches >= s.g.Limit

\* Reader returns to the file loop
Return(s) == [s EXCEPT !.pc = "idle", !.cur = @ + 1]

\* lines 110-113: the limit check; Reader returns at once
LimitHitEnabled(s) == s.pc = "match" /\ Found(s) /\ AtLimit(s)

LimitHitStep(s) ==
  Return([s EXCEPT !.g.Match = TRUE, !.g.Limited = TRUE, !.beginText = FALSE,
                   !.fed = Fed(s)])

\* lines 114-122: names-only mode prints the name and returns
NamesOnlyEnabled(s) == s.pc = "match" /\ Found(s) /\ ~AtLimit(s) /\ s.g.L

NamesOnlyStep(s) ==
  Return([s EXCEPT !.g.Match = TRUE, !.g.Matches = @ + 1, !.beginText = FALSE,
                   !.fed = Fed(s),
                   !.Stdout = Append(@, <<"name", s.cur, 0>>)])

LineStart(b, cs, m1) == LastIndexNL(Slice(b, cs, m1)) + 1 + cs

LineEnd(m1, e) == IF m1 + 1 > e THEN e ELSE m1 + 1

\* the switch of lines 136-157: what one match writes to Stdout
OutputKind(grep) ==
  IF grep.C THEN "none"
  ELSE IF grep.OnMatch THEN "event"
  ELSE IF grep.PreContext + grep.PostContext > 0 THEN "block"
  ELSE IF grep.HTML THEN "html"
  ELSE IF grep.N THEN "numbered"
  ELSE "plain"

\* the context window the OnMatch callback of searchPartial or the block output asks for
Window(grep, b, lineStart, lineEnd) ==
  IF OutputKind(grep) = "event"
  THEN LineContext(OnMatchBefore, OnMatchAfter, b, lineStart, lineEnd)
  ELSE IF OutputKind(grep) = "block"
  THEN LineContext(grep.PreContext, grep.PostContext, b, lineStart, lineEnd)
  ELSE NoWindow

\* lines 114-161: one match reaches the switch
DispatchEnabled(s) == s.pc = "match" /\ Found(s) /\ ~AtLimit(s) /\ ~s.g.L

DispatchStep(s) ==
  LET lineStart == LineStart(s.buf, s.chunkStart, M1(s))
      lineEnd   == LineEnd(M1(s), s.end)
      ln        == IF needLineno(s)
                   THEN s.lineno + countNL(Slice(s.buf, s.chunkStart, lineStart))
                   ELSE s.lineno
      kind      == OutputKind(s.g)
      win       == Window(s.g, s.buf, lineStart, lineEnd)
  IN [s EXCEPT !.g.Match = TRUE, !.g.Matches = @ + 1, !.beginText = FALSE,
               !.fed = Fed(s),
               !.count = (IF s.g.C THEN @ + 1 ELSE @),
               !.Stdout = (IF kind = "none" THEN @
                           ELSE Append(@, <<kind, s.cur, IF kind = "plain" THEN 0 ELSE ln>>)),
               !.out = Append(@, [file |-> s.cur, lineno |-> ln,
                                  lineStart |-> s.base + lineStart,
                                  lineEnd |-> s.base + lineEnd,
                                  line |-> Slice(s.buf, lineStart, lineEnd),
                                  final |-> s.endText,
                                  atBufEnd |-> (lineEnd = Len(s.buf)),
                                  nlAfter |-> countNL(Slice(s.buf, lineEnd, Len(s.buf))),
                                  slid |-> (s.base > 0),
                                  win |-> win]),
               !.lineno = (IF needLineno(s) THEN ln + 1 ELSE ln),
               !.chunkStart = lineEnd,
               !.pc = (IF win.ok THEN "match" ELSE "panic")]

(***************************************************************************)
(* The rest of one outer iteration, lines 163-181, and the summary of      *)
(* counts-only mode, lines 182-188, when the loop is left.                 *)
(***************************************************************************)
\* variant: the context is kept even when it is all of buf[:end]
SlideLen_NoGiveUp(b, e, preContext) == lineSuffixLen(Slice(b, 0, e), preContext)

SlideLen(b, e, preContext) ==
  LET d == lineSuffixLen(Slice(b, 0, e), preContext)
  IN IF d = e THEN 0 ELSE d

\* lines 182-188
Summary(s) ==
  IF s.g.C /\ s.count > 0 THEN Append(s.Stdout, <<"count", s.cur, s.count>>) ELSE s.Stdout

\* lines 175-180
ReportError(s) ==
  IF s.err # "EOF" /\ s.err # "UnexpectedEOF" THEN Append(s.Stderr, <<s.cur, s.err>>)
  ELSE s.Stderr

\* variant: the newlines left after the last match of a chunk are not counted
LinenoAfterLoop_NoRecount(s) == s.lineno

\* lines 163-165: newlines left in the region are counted after the loop
LinenoAfterLoop(s) ==
  IF needLineno(s) /\ s.err = "nil"
  THEN s.lineno + countNL(Slice(s.buf, s.chunkStart, s.end))
  ELSE s.lineno

ChunkEndEnabled(s) == s.pc = "match" /\ ~Found(s)

ChunkEndStep(s) ==
  IF needLineno(s) /\ s.err = "nil" /\ s.chunkStart > s.end
  THEN \* buf[chunkStart:end] is out of range
       [s EXCEPT !.beginText = (IF LoopRuns(s) THEN FALSE ELSE @), !.pc = "panic"]
  ELSE LET d == SlideLen(s.buf, s.end, s.g.PreContext)
           t == [s EXCEPT !.beginText = (IF LoopRuns(s) THEN FALSE ELSE @),
                          !.fed = Fed(s),
                          !.lineno = LinenoAfterLoop(s),
                          !.buf = Slice(s.buf, s.end - d, Len(s.buf)),
                          !.base = @ + (s.end - d),
                          !.chunkStart = d]
       IN IF s.endText /\ s.err # "nil"
          THEN Return([t EXCEPT !.Stderr = ReportError(s), !.Stdout = Summary(s)])
          ELSE [t EXCEPT !.pc = "read"]

StartReader == StartReaderEnabled(State) /\ Becomes(StartReaderStep(State))
ReadCall    == ReadCallEnabled(State)    /\ Becomes(ReadCallStep(State))
ReadDone    == ReadDoneEnabled(State)    /\ Becomes(ReadDoneStep(State))
LimitHit    == LimitHitEnabled(State)    /\ Becomes(LimitHitStep(State))
NamesOnly   == NamesOnlyEnabled(State)   /\ Becomes(NamesOnlyStep(State))
Dispatch    == DispatchEnabled(State)    /\ Becomes(DispatchStep(State))
ChunkEnd    == ChunkEndEnabled(State)    /\ Becomes(ChunkEndStep(State))

Next ==
  \/ StartReader
  \/ ReadCall
  \/ ReadDone
  \/ LimitHit
  \/ NamesOnly
  \/ Dispatch
  \/ ChunkEnd

Spec == Init /\ [][Next]_vars

(***************************************************************************)
(* A whole run evaluated in one piece: the operations applied until none   *)
(* is enabled.  At most one operation is enabled in a state.               *)
(***************************************************************************)
Running(s) ==
  \/ StartReaderEnabled(s) \/ ReadCallEnabled(s) \/ ReadDoneEnabled(s)
  \/ LimitHitEnabled(s) \/ NamesOnlyEnabled(s) \/ DispatchEnabled(s)
  \/ ChunkEndEnabled(s)

Step(s) ==
  IF StartReaderEnabled(s) THEN StartReaderStep(s)
  ELSE IF ReadCallEnabled(s) THEN ReadCallStep(s)
  ELSE IF ReadDoneEnabled(s) THEN ReadDoneStep(s)
  ELSE IF LimitHitEnabled(s) THEN LimitHitStep(s)
  ELSE IF NamesOnlyEnabled(s) THEN NamesOnlyStep(s)
  ELSE IF DispatchEnabled(s) THEN DispatchStep(s)
  ELSE ChunkEndStep(s)

RECURSIVE Run(_)
Run(s) == IF Running(s) THEN Run(Step(s)) ELSE s

\* the scan of one source alone by a Grep value with the fields of grep
ScanAlone(grep, file, rm) == Run(InitState(grep, <<file>>, rm))

(***************************************************************************)
(* The scans whose end is checked: the longer sources, read whole, under   *)
(* the numbered context configurations, and shorter sources, read whole or *)
(* byte by byte and ending in end-of-stream or in an error, under a names- *)
(* only, a limited counting and a limited numbered configuration.  Reader  *)
(* and the file loop are sequential code: a step that can be taken is      *)
(* taken.                                                                  *)
(***************************************************************************)
ShortFileSets ==
  {<<[data |-> d, fail |-> f]>> : d \in TextsUpTo(MaxLines - 1), f \in BOOLEAN}

TermConfigs ==
  {Config(TRUE, FALSE, FALSE, FALSE, FALSE, 0, 0, 0),
   Config(FALSE, TRUE, FALSE, FALSE, FALSE, MaxLimit - 1, 0, 0),
   Config(FALSE, FALSE, TRUE, FALSE, FALSE, MaxLimit - 1, MaxContext, MaxContext)}

InitTerm ==
  /\ \/ \E fs \in LongFileSets, cfg \in {c \in LongConfigs : c.N} :
           Is(InitState(NewGrep(cfg), fs, "whole"))
     \/ \E fs \in ShortFileSets, rm \in {"byte", "whole"}, cfg \in TermConfigs :
           Is(InitState(NewGrep(cfg), fs, rm))
  /\ steps = 0
  /\ lc = NoCall

\* every operation is a step, and one can be taken exactly when Running holds,
\* so this is weak fairness of Next
NextStep == Running(State) /\ steps' = steps + 1

SpecTerm == InitTerm /\ [][Next]_vars /\ WF_steps(NextStep)

(***************************************************************************)
(* Reference notions the properties are stated with: the lines of a        *)
(* source as half-open spans of stream offsets (a line includes its        *)
(* newline; an unterminated tail is the last line), and the spans of the   *)
(* lines the matcher accepts.                                              *)
(***************************************************************************)
RECURSIVE LineSpansFrom(_, _)
LineSpansFrom(data, start) ==
  IF start >= Len(data) THEN <<>>
  ELSE LET j == IndexNL(Slice(data, start, Len(data)))
       IN IF j < 0 THEN << <<start, Len(data)>> >>
          ELSE << <<start, start + j + 1>> >> \o LineSpansFrom(data, start + j + 1)

LineSpans(data) == LineSpansFrom(data, 0)

LineText(data, span) == chomp(Slice(data, span[1], span[2]))

AcceptedSpans(data) ==
  SelectSeq(LineSpans(data), LAMBDA sp : Accepts(Slice(data, sp[1], sp[2])))

OutOf(f) == SelectSeq(out, LAMBDA m : m.file = f)

SpansOf(ms) == [i \in 1..Len(ms) |-> <<ms[i].lineStart, ms[i].lineEnd>>]

Returned(f) == f < cur

(***************************************************************************)
(* LineContext on its own: the arguments are drawn from all buffers of at  *)
(* most MaxLC bytes and all spans of whole lines (the empty span of the    *)
(* empty buffer included).                                                 *)
(***************************************************************************)
LCBytes == {SP, TAB, "x", NL}

LCBufs == UNION {[1..k -> LCBytes] : k \in 0..MaxLC}

\* offsets at which a line starts, and offsets at which a line ends
LineStarts(b) == {0} \cup {i \in 1..(Len(b) - 1) : b[i] = NL}

LineEnds(b) == {Len(b)} \cup {i \in 1..Len(b) : b[i] = NL}

LCCalls ==
  {[pc |-> "call", numBefore |-> nb, numAfter |-> na, buf |-> b,
    lineStart |-> ls, lineEnd |-> le, res |-> NoWindow] :
      nb \in 0..MaxNum, na \in 0..MaxNum,
      b \in LCBufs, ls \in 0..MaxLC, le \in 0..MaxLC}

InitLC ==
  /\ Is(InitState(NewGrep(Config(FALSE, FALSE, FALSE, FALSE, FALSE, 0, 0, 0)), <<>>, "whole"))
  /\ steps = 0
  /\ lc \in {c \in LCCalls : /\ c.lineStart \in LineStarts(c.buf)
                             /\ c.lineEnd \in LineEnds(c.buf)
                             /\ c.lineStart < c.lineEnd \/ Len(c.buf) = 0}

CallLineContext ==
  /\ lc.pc = "call"
  /\ lc' = [lc EXCEPT !.pc = "done",
                      !.res = LineContext(lc.numBefore, lc.numAfter, lc.buf,
                                          lc.lineStart, lc.lineEnd)]
  /\ UNCHANGED <<g, files, rmode, cur, pc, pos, n, rerr, err, buf, chunkStart, end,
                 lineno, count, beginText, endText, base, out, Stdout, Stderr, nreads,
                 fed, steps>>

NextLC == CallLineContext

SpecLC == InitLC /\ [][NextLC]_vars

\* the lines of the buffer of the call that end at or before lineStart, and
\* those that start at or after lineEnd
LinesBefore == SelectSeq(LineSpans(lc.buf), LAMBDA sp : sp[2] <= lc.lineStart)

LinesAfter == SelectSeq(LineSpans(lc.buf), LAMBDA sp : sp[1] >= lc.lineEnd)

IsPrefixOf(p, l) == Len(p) <= Len(l) /\ SubSeq(l, 1, Len(p)) = p

WindowLines(r) == <<r.rawLine>> \o r.rawBefore \o r.rawAfter

WindowCut(r) == <<r.line>> \o r.before \o r.after

(***************************************************************************)
(* Properties.                                                             *)
(***************************************************************************)
FreshGrep(grep) == [grep EXCEPT !.Match = FALSE, !.Matches = 0, !.Limited = FALSE]

AsFirst(ms) == [i \in 1..Len(ms) |-> [ms[i] EXCEPT !.file = 1]]

EndsWithNL(data) == Len(data) > 0 /\ data[Len(data)] = NL

LastSpan(data) == LineSpans(data)[Len(LineSpans(data))]

AllDone == pc = "idle" /\ (cur > Len(files) \/ g.Limited)

\* C1: with Limit = 0 and not in names-only mode, once Reader has returned for
\* a source, the matches it dispatched are exactly the lines of the source the
\* matcher accepts, each once and in stream order.
C1_EveryAcceptedLineOnce ==
  \A f \in 1..Len(files) :
    (Returned(f) /\ g.Limit = 0 /\ ~g.L)
      => SpansOf(OutOf(f)) = AcceptedSpans(files[f].data)

\* C2: when line numbers are tracked, every dispatched match carries 1 plus the
\* number of newlines of the source before the start of its line, and the line
\* numbers of successive matches of one scan never decrease.
C2_LineNumbers ==
  (g.N \/ g.HTML) =>
    \A i \in 1..Len(out) :
      /\ out[i].lineno = 1 + countNL(Slice(files[out[i].file].data, 0, out[i].lineStart))
      /\ (i > 1 /\ out[i - 1].file = out[i].file) => out[i - 1].lineno <= out[i].lineno

\* a match on line 2 or later that was dispatched after a slide discarded bytes
C2_Witness ==
  /\ g.N
  /\ \E i \in 1..Len(out) : out[i].slid /\ out[i].lineno >= 2 /\ ~out[i].final

\* C3: with Limit = L > 0 the counter never exceeds L, the limit check ends the
\* scan at once (Reader has returned whenever Limited is set, so nothing is read
\* or dispatched after it), and a source with more than L accepted lines gets
\* exactly L matches dispatched and leaves Limited set.
C3_LimitStopsScan ==
  /\ g.Limit > 0 => g.Matches <= g.Limit
  /\ g.Limited => pc = "idle"
  /\ (Returned(1) /\ ~g.L /\ g.Limit > 0
        /\ Len(AcceptedSpans(files[1].data)) > g.Limit)
       => Len(OutOf(1)) = g.Limit /\ g.Limited

\* C4: a scan through a source that returns one byte per Read call ends with
\* the same dispatched matches (lines, offsets, line numbers, context windows),
\* the same output and the same Grep fields as the scan of the same content
\* through a source that returns everything in one Read call.
C4_ByteReaderSameAsWhole ==
  (AllDone /\ rmode = "byte") =>
    LET r == Run(InitState(FreshGrep(g), files, "whole"))
    IN r.out = out /\ r.Stdout = Stdout /\ r.Stderr = Stderr /\ r.g = g

\* a finished one-byte-per-call scan with several reads, a slide and a window
C4_Witness ==
  /\ AllDone /\ rmode = "byte" /\ nreads > BufCap
  /\ \E i \in 1..Len(out) : out[i].slid /\ out[i].win.called /\ out[i].lineno >= 2
  /\ \E i \in 1..Len(out) : Len(out[i].win.after) > 0

\* C5: LineContext returns as `before` the min(numBefore, k) lines that end
\* right before lineStart and as `after` the min(numAfter, m) lines that start
\* at lineEnd, in buffer order (chomped, the shared prefix cut), and no slice
\* expression is out of range.
C5_ContextLines ==
  lc.pc = "done" =>
    LET r  == lc.res
        k  == Len(LinesBefore)
        m  == Len(LinesAfter)
        nb == Min(lc.numBefore, k)
        na == Min(lc.numAfter, m)
    IN /\ r.ok
       /\ Len(r.before) = nb
       /\ Len(r.after) = na
       /\ \A i \in 1..nb :
            /\ r.rawBefore[i] = LineText(lc.buf, LinesBefore[k - nb + i])
            /\ r.before[i] = cutPrefix(r.rawBefore[i], r.prefix)
       /\ \A i \in 1..na :
            /\ r.rawAfter[i] = LineText(lc.buf, LinesAfter[i])
            /\ r.after[i] = cutPrefix(r.rawAfter[i], r.prefix)

\* a call with more lines before than asked for and fewer lines after than asked for
C5_Witness ==
  /\ lc.pc = "done"
  /\ lc.numBefore = 1 /\ Len(LinesBefore) = 2 /\ Len(lc.res.before) = 1
  /\ lc.numAfter = 2 /\ Len(LinesAfter) = 1 /\ Len(lc.res.after) = 1
  /\ ~EndsWithNL(lc.buf)

\* C6 as stated: the final prefix is a prefix of every chomped line of the
\* window and exactly that many bytes are removed from each of them.
C6_PrefixOfEveryLine ==
  lc.pc = "done" =>
    \A i \in 1..Len(WindowLines(lc.res)) :
      /\ IsPrefixOf(lc.res.prefix, WindowLines(lc.res)[i])
      /\ Len(WindowCut(lc.res)[i]) = Len(WindowLines(lc.res)[i]) - Len(lc.res.prefix)

LeadingBlanks(l) == Slice(l, 0, blankRun(l, 0))

CommonToNonEmpty(p, r) ==
  /\ IsPrefixOf(p, LeadingBlanks(r.rawLine))
  /\ \A i \in 1..Len(WindowLines(r)) :
       Len(WindowLines(r)[i]) > 0 => IsPrefixOf(p, WindowLines(r)[i])

\* C6 amended: the prefix is the longest initial run of the leading blanks of
\* the match line that every non-empty chomped line of the window starts with
\* (an empty line leaves the prefix as it is); it is cut from every non-empty
\* line, and an empty line is returned empty.
C6_PrefixOfNonEmptyLines ==
  lc.pc = "done" =>
    LET r == lc.res
    IN /\ CommonToNonEmpty(r.prefix, r)
       /\ \A j \in (Len(r.prefix) + 1)..Len(LeadingBlanks(r.rawLine)) :
            ~CommonToNonEmpty(SubSeq(LeadingBlanks(r.rawLine), 1, j), r)
       /\ \A i \in 1..Len(WindowLines(r)) :
            IF Len(WindowLines(r)[i]) > 0
            THEN r.prefix \o WindowCut(r)[i] = WindowLines(r)[i]
            ELSE WindowCut(r)[i] = <<>>

\* an indented match line after an empty line: the prefix is kept and cut
C6_Witness ==
  /\ lc.pc = "done"
  /\ Len(lc.res.prefix) > 0
  /\ Len(lc.res.rawBefore) = 1 /\ lc.res.rawBefore[1] = <<>>
  /\ Len(lc.res.before) = 1 /\ lc.res.before[1] = <<>>
  /\ lc.res.prefix \o lc.res.line = lc.res.rawLine

\* C7: in counts-only mode nothing is written per match, and a scan that has
\* returned wrote one summary line with its count when it counted a match and
\* nothing otherwise.
C7_CountSummary ==
  g.C =>
    /\ \A i \in 1..Len(Stdout) : Stdout[i][1] = "count"
    /\ \A f \in 1..Len(files) :
         Returned(f) =>
           SelectSeq(Stdout, LAMBDA e : e[2] = f)
             = (IF Len(OutOf(f)) > 0 THEN << <<"count", f, Len(OutOf(f))>> >> ELSE <<>>)

EndedLimited(f) == g.Limited /\ f = cur - 1

\* C8 as stated: whatever was scanned before with the same Grep value, the
\* matches dispatched for a source and whether its scan ends limited are those
\* of the scan of that source alone by a fresh Grep value.
C8_ScanIndependentOfEarlierScans ==
  \A f \in 1..Len(files) :
    Returned(f) =>
      LET solo == ScanAlone(FreshGrep(g), files[f], rmode)
      IN /\ AsFirst(OutOf(f)) = solo.out
         /\ EndedLimited(f) <=> solo.g.Limited

\* the Grep value as it was when Reader was called for source f
GrepBefore(f) ==
  LET earlier == SelectSeq(out, LAMBDA m : m.file < f)
  IN [g EXCEPT !.Matches = Len(earlier), !.Match = (Len(earlier) > 0),
               !.Limited = FALSE]

\* C8 amended: line counter, text flags, per-source count and buffer start
\* afresh in every Reader call, while Matches and Limited belong to the Grep
\* value and carry over: the matches dispatched for a source and whether its
\* scan ends limited are those of the scan of that source alone by a Grep value
\* whose Matches is the number of matches counted by the earlier calls.
C8_ScanDependsOnlyOnCarriedCounter ==
  \A f \in 1..Len(files) :
    Returned(f) =>
      LET solo == ScanAlone(GrepBefore(f), files[f], rmode)
      IN /\ AsFirst(OutOf(f)) = solo.out
         /\ EndedLimited(f) <=> solo.g.Limited

\* a second source scanned after matches in a first one, cut short by the limit
C8_Witness ==
  /\ Returned(2) /\ EndedLimited(2)
  /\ Len(OutOf(1)) > 0 /\ Len(OutOf(2)) > 0
  /\ NumLines(files[1].data) >= 2

\* C9: a scan whose last ReadFull failed with an error other than end of
\* stream has reported that error exactly once when Reader returns, and its
\* final pass dispatched what the scan of the same bytes ending in a clean
\* end of stream dispatches.
C9_ReadErrorReportedOnce ==
  /\ (pc = "idle" /\ cur > 1 /\ err = "ERR")
       => SelectSeq(Stderr, LAMBDA e : e[1] = cur - 1) = << <<cur - 1, "ERR">> >>
  /\ (Returned(1) /\ files[1].fail)
       => AsFirst(OutOf(1))
            = ScanAlone(FreshGrep(g), [files[1] EXCEPT !.fail = FALSE], rmode).out

\* C10: when the last line of the source has no newline and is accepted, the
\* last match dispatched is that line, found in the final pass with lineEnd at
\* the end of the buffer, and LineContext, where it is called, returns its
\* chomped text and no line after it.
C10_UnterminatedLastLine ==
  (/\ Returned(1) /\ g.Limit = 0 /\ ~g.L
   /\ Len(files[1].data) > 0 /\ ~EndsWithNL(files[1].data)
   /\ Accepts(LineText(files[1].data, LastSpan(files[1].data))))
    => /\ Len(OutOf(1)) > 0
       /\ LET m == OutOf(1)[Len(OutOf(1))]
          IN /\ <<m.lineStart, m.lineEnd>> = LastSpan(files[1].data)
             /\ m.final /\ m.atBufEnd
             /\ m.win.ok
             /\ m.win.called =>
                  /\ m.win.after = <<>>
                  /\ m.win.rawLine = LineText(files[1].data, LastSpan(files[1].data))

\* C11: whenever Reader is in its matching pass (where buf[chunkStart:end] is
\* handed to the matcher, counted after the loop and slid), the markers satisfy
\* 0 <= chunkStart <= end <= len(buf) <= cap(buf), and no slice expression of
\* Reader is out of range.
C11_MarkersInRange ==
  /\ pc = "match" =>
       /\ 0 <= chunkStart /\ chunkStart <= end
       /\ end <= Len(buf) /\ Len(buf) <= BufCap
  /\ pc # "panic"

\* a pass over a buffer that a complete read filled: the source may hold more
NonFinalPass == pc = "match" /\ err = "nil"

IsLineOf(data, m) ==
  \E k \in 1..Len(LineSpans(data)) : LineSpans(data)[k] = <<m.lineStart, m.lineEnd>>

\* complete lines of the source after the line of the dispatched match m
LinesAfterInSource(m) ==
  countNL(Slice(files[m.file].data, m.lineEnd, Len(files[m.file].data)))

\* C12: on a non-final pass the region handed to the matcher ends at a line
\* start and leaves at least PostContext complete lines after it, every match
\* dispatched on such a pass has a line that ends with a newline and has after
\* it in the buffer the PostContext complete lines that follow it in the source
\* (all of them when the source has fewer), and every dispatched line is a
\* whole line of the source, never a piece of one.
C12_SafeEndGuarantee ==
  /\ NonFinalPass =>
       /\ end = 0 \/ buf[end] = NL
       /\ countNL(Slice(buf, end, Len(buf))) >= g.PostContext
  /\ \A i \in 1..Len(out) :
       /\ ~out[i].final =>
            /\ Len(out[i].line) > 0 /\ out[i].line[Len(out[i].line)] = NL
            /\ out[i].nlAfter >= Min(g.PostContext, LinesAfterInSource(out[i]))
       /\ IsLineOf(files[out[i].file].data, out[i])

\* the length of the longest suffix of b made of at most pre complete lines,
\* or 0 when that suffix is all of b
ContextLen(b, pre) ==
  LET Fits(k) == /\ k = 0 \/ b[Len(b)] = NL
                 /\ k = 0 \/ k = Len(b) \/ b[Len(b) - k] = NL
                 /\ countNL(Slice(b, Len(b) - k, Len(b))) <= pre
      S == {k \in 0..Len(b) : Fits(k)}
      m == CHOOSE k \in S : \A j \in S : j <= k
  IN IF m = Len(b) THEN 0 ELSE m

\* a slide after which the loop goes on to the next read
Slides == pc = "match" /\ pc' = "read"

\* C13: after a slide the buffer starts with the last complete lines before
\* `end`, at most PreContext of them (none when they would be all of buf[:end]),
\* followed by the bytes from `end` on; chunkStart is the length of that
\* context and the stream offset of the first byte never handed to the
\* matcher, so nothing is handed to it twice and nothing is skipped; and the
\* buffer stays within its capacity.
C13_SlideKeepsContextAndRest ==
  [][Slides =>
       /\ chunkStart' = ContextLen(Slice(buf, 0, end), g.PreContext)
       /\ buf' = Slice(buf, end - chunkStart', Len(buf))
       /\ base' + chunkStart' = fed'
       /\ Len(buf') <= BufCap]_vars

\* io.ReadFull is about to make its first r.Read call of a chunk
BeforeRead == pc = "read" /\ n = 0 /\ rerr = "nil"

\* io.ReadFull has returned
AfterRead == pc = "read" /\ ~ReadFullRunning(State)

\* C14: before every read the buffer is shorter than its capacity, every read
\* obtains at least one byte or fails (end of stream or error, which makes the
\* pass the last one), every slide that is followed by a read discards at
\* least one byte, and every run comes to its end: all Reader calls have
\* returned, or the run has stopped in an out-of-range slice.
C14_ReaderTerminates ==
  /\ [](BeforeRead => Len(buf) < BufCap)
  /\ [](AfterRead => n > 0 \/ rerr # "nil")
  /\ [][Slides => base' > base /\ Len(buf') < Len(buf)]_vars
  /\ <>(AllDone \/ pc = "panic")

\* a scan that has returned after three reads and at least one slide that
\* discarded bytes
C14_Witness ==
  /\ AllDone /\ cur = 2 /\ ~g.Limited
  /\ base > 0 /\ nreads >= 3 /\ rmode = "whole"
  /\ pos = Len(files[1].data)

=============================================================================
